---- MODULE Spec2Model ----
(***************************************************************************)
(* Two-way click-to-talk: the signaling session (SignalingService), the    *)
(* connection manager (ClickToTalkApp) and the media engine wrapper        *)
(* (WebRTCConnection), as a state machine of the browser event loop.       *)
(*                                                                         *)
(* Every `await` on an external operation (store query, relay send, media  *)
(* engine call) is a suspension point: the code up to it is one atomic     *)
(* step, the code after it is another, and other handlers of the same      *)
(* session may run in between.  A suspended invocation is a task record.   *)
(*                                                                         *)
(* The program state is gathered in one record (the "world"); every method *)
(* of the source is an operator from worlds to worlds, so that a handler   *)
(* is the composition of the methods it calls.                             *)
(***************************************************************************)
EXTENDS Integers, Sequences, FiniteSets, Bags, TLC

\* ------------------------------------------------------------------ bounds
MaxJoins == 1     \* joinRoom invocations per session
MaxLeaves == 1    \* leaveRoom invocations per session
MaxStray == 1     \* messages published by the third peer
MaxCand == 1      \* local candidates one media engine emits
MaxEngines == 2   \* WebRTCConnection objects per session alive at once
MaxTasks == 3     \* suspended invocations per session
MaxCalls == 3     \* direct calls on one SignalingService (session specification)
MaxFails == 1     \* relay publishes that report an error
MaxDups == 1      \* deliveries the relay repeats
MaxCallLogs == 1  \* bridged calls initiated

\* --------------------------------------------------------------- constants
Peers == {"A", "B"}              \* the two sessions under study
Leavers == {"A"}                 \* the session whose user presses Leave
First == "A"                     \* the session that is in the room first
Stranger == "C"                  \* a third peer of the room
RoomNames == {"demo"}
NULL == "null"

SignalTypes == {"join", "leave", "offer", "answer", "ice-candidate"}

NoMsg == [room |-> 0, type |-> "none", from |-> NULL, to |-> NULL, data |-> "none"]
NoChannel == [ch |-> 0, room |-> 0]

\* `stale` is an observation the program never reads: the invocation resumed
\* from media acquisition after the engine it had created was released.
NoTask == [id |-> 0, kind |-> "none", pc |-> "none", msg |-> NoMsg, eng |-> 0,
           out |-> NoMsg, name |-> NULL, stale |-> FALSE]

BlankEngine == [used |-> FALSE, stream |-> FALSE, pc |-> FALSE, sig |-> "stable",
                local |-> FALSE, remote |-> FALSE, cands |-> <<>>,
                iceCb |-> FALSE, emitted |-> 0]

VARIABLES
  rooms,          \* the rooms table: a set of [name, id]
  signaling,      \* the signaling table: a bag of message rows
  subs,           \* the relay's live subscriptions: a set of [peer, ch, room]
  inflight,       \* relay deliveries not yet made: a bag of [peer, ch, msg]
  roomId,         \* SignalingService.roomId, 0 for null
  channel,        \* SignalingService.channel, NoChannel for null
  cb,             \* SignalingService.onMessageCallback: NULL, "app" or "probe"
  remotePeerId,   \* ClickToTalkApp.remotePeerId
  isInitiator,    \* ClickToTalkApp.isInitiator
  webrtc,         \* ClickToTalkApp.webrtc: an engine id, 0 for null
  status,         \* class of the status element
  view,           \* which section is shown: "join" or "call"
  eng,            \* the WebRTCConnection objects of each session
  tasks,          \* the suspended invocations of each session
  budget,         \* what the environment may still do
  trace,          \* observations of the last step (never read by the program)
  users,          \* the users table of the phonebook server: a set of rows
  session,        \* req.user of each Google account: its type and its user id
  response,       \* the last HTTP response the phonebook server sent
  callLogs,       \* the call_logs table: a set of rows
  legs,           \* the calls Twilio placed: a set of [log, participant, state]
  requests        \* requests the call routes have not answered yet

vars == <<rooms, signaling, subs, inflight, roomId, channel, cb, remotePeerId,
          isInitiator, webrtc, status, view, eng, tasks, budget, trace,
          users, session, response, callLogs, legs, requests>>

\* The state of the talk application, and the state of the phonebook server.
talkVars == <<rooms, signaling, subs, inflight, roomId, channel, cb, remotePeerId,
              isInitiator, webrtc, status, view, eng, tasks, budget, trace>>

serverVars == <<users, session, response, callLogs, legs, requests>>

\* The world: the state as one value.
World ==
  [rooms |-> rooms, signaling |-> signaling, subs |-> subs, inflight |-> inflight,
   roomId |-> roomId, channel |-> channel, cb |-> cb, remotePeerId |-> remotePeerId,
   isInitiator |-> isInitiator, webrtc |-> webrtc, status |-> status, view |-> view,
   eng |-> eng, tasks |-> tasks, budget |-> budget, trace |-> trace]

\* ----------------------------------------------------------------- helpers
Min(S) == CHOOSE x \in S : \A y \in S : x <= y

One(x) == SetToBag({x})

FreeTaskIds(w, p) == (1..MaxTasks) \ {t.id : t \in w.tasks[p]}

PutTask(w, p, t) ==
  [w EXCEPT !.tasks[p] = {x \in @ : x.id # t.id} \cup {t}]

\* The invocation ends: it returned, or it threw and the error was logged.
Finish(w, p, t) ==
  [w EXCEPT !.tasks[p] = {x \in @ : x.id # t.id}]

Threw(w, what) == [w EXCEPT !.trace.threw = what]

\* ------------------------------------------------------------- the relay
\* channel.send({type: 'broadcast', event: 'signal', payload}): one delivery
\* for every live subscription of the channel's topic; the sender's own
\* subscriptions are among them when the relay echoes.
Broadcast(w, ch, message) ==
  [w EXCEPT !.inflight =
     @ (+) SetToBag({[peer |-> s.peer, ch |-> s.ch, msg |-> message] :
                       s \in {x \in w.subs : /\ x.room = ch.room
                                              /\ (w.budget.echo \/ x.peer # message.from)}})]

FreeChannelIds(w, p) ==
  (1..(MaxJoins + MaxCalls)) \ ({s.ch : s \in {x \in w.subs : x.peer = p}} \cup {w.channel[p].ch})

\* channel.unsubscribe(): the subscription and what was on its way to it go.
Unsubscribe(w, p, ch) ==
  [w EXCEPT !.subs = {s \in @ : ~(s.peer = p /\ s.ch = ch.ch)},
            !.inflight = LET keep == {d \in BagToSet(@) : ~(d.peer = p /\ d.ch = ch.ch)}
                         IN [d \in keep |-> @[d]]]

\* --------------------------------------------------- SignalingService
\* sendSignal without its room guard.
sendSignalUnguarded(w, p, t, signalType, signalData, targetPeerId, thrown) ==
  LET message == [room |-> w.roomId[p], type |-> signalType, from |-> p,
                  to |-> targetPeerId, data |-> signalData]
  IN PutTask([w EXCEPT !.signaling = @ (+) One(message)], p,
             [t EXCEPT !.pc = "ss_insert", !.out = message])

\* sendSignal up to its first await: the room guard, the message, the insert
\* into the signaling table.  `thrown` is the world the caller continues in
\* when the guard throws.
sendSignal(w, p, t, signalType, signalData, targetPeerId, thrown) ==
  IF w.roomId[p] = 0
  THEN thrown
  ELSE LET message == [room |-> w.roomId[p], type |-> signalType, from |-> p,
                       to |-> targetPeerId, data |-> signalData]
       IN PutTask([w EXCEPT !.signaling = @ (+) One(message)], p,
                  [t EXCEPT !.pc = "ss_insert", !.out = message])

\* joinRoom from `this.channel = supabase.channel(...)` to the await of
\* sendSignal('join', {}).
joinSubscribe(w, p, t, rid) ==
  LET ch == [ch |-> Min(FreeChannelIds(w, p)), room |-> rid]
      w1 == [w EXCEPT !.roomId[p] = rid,
                      !.channel[p] = ch,
                      !.subs = @ \cup {[peer |-> p, ch |-> ch.ch, room |-> rid]}]
  IN sendSignal(w1, p, t, "join", "empty", NULL, Finish(Threw(w1, "NotJoined"), p, t))

\* ClickToTalkApp.joinRoom after `await this.signaling.joinRoom(roomName)`.
joinRoomReturned(w, p, t) ==
  IF t.kind = "join"
  THEN Finish([w EXCEPT !.cb[p] = "app", !.view[p] = "call", !.status[p] = "connecting"],
              p, t)
  ELSE Finish(w, p, t)

\* ClickToTalkApp.joinRoom: the catch block.
joinRoomFailed(w, p, t) ==
  IF t.kind = "join"
  THEN Finish([Threw(w, "RoomError") EXCEPT !.status[p] = "disconnected"], p, t)
  ELSE Finish(Threw(w, "RoomError"), p, t)

\* WebRTCConnection.close(): tracks stopped, link closed, fields nulled.  The
\* operations pending on the closed link never complete.
PcOps == {"createOffer", "setLocalOffer", "setRemoteOffer", "createAnswer",
          "setLocalAnswer", "setRemoteAnswer", "addIce"}

close(w, p, e) ==
  [w EXCEPT !.eng[p][e] = [@ EXCEPT !.stream = FALSE, !.pc = FALSE],
            !.tasks[p] = {t \in @ : ~(t.eng = e /\ t.pc \in PcOps)}]

\* ClickToTalkApp.leaveRoom after `await this.signaling.leave()`.
leaveRoomReturned(w, p, t) ==
  IF t.kind = "leave"
  THEN LET w1 == IF w.webrtc[p] # 0 THEN close(w, p, w.webrtc[p]) ELSE w
       IN Finish([w1 EXCEPT !.webrtc[p] = 0, !.remotePeerId[p] = NULL,
                            !.isInitiator[p] = FALSE, !.view[p] = "join",
                            !.status[p] = "disconnected"], p, t)
  ELSE Finish(w, p, t)

\* leave() from `if (this.channel)` on.
leaveUnsubscribe(w, p, t) ==
  IF w.channel[p] # NoChannel
  THEN PutTask(Unsubscribe(w, p, w.channel[p]), p, [t EXCEPT !.pc = "unsubscribe"])
  ELSE leaveRoomReturned([w EXCEPT !.roomId[p] = 0], p, t)

\* leave() after `await this.channel.unsubscribe()`.
leaveUnsubscribed(w, p, t) ==
  leaveRoomReturned([w EXCEPT !.channel[p] = NoChannel, !.roomId[p] = 0], p, t)

\* leave() without its `if (this.roomId)`.
leaveUnguarded(w, p, t) ==
  sendSignal(w, p, t, "leave", "empty", NULL, Finish(Threw(w, "NotJoined"), p, t))

\* SignalingService.leave().
leave(w, p, t) ==
  IF w.roomId[p] # 0
  THEN sendSignal(w, p, t, "leave", "empty", NULL, leaveUnsubscribe(w, p, t))
  ELSE leaveUnsubscribe(w, p, t)

\* ---------------------------------------------------- WebRTCConnection
FreeEngines(w, p) == {e \in 1..MaxEngines : ~w.eng[p][e].used}

CandName(k) == "c" \o ToString(k)

\* What the browser accepts: setRemoteDescription rejects a value that is not
\* a session description of the expected type, and the RTCIceCandidate
\* constructor throws on a value that is not a candidate descriptor.
Malformed == "malformed"

ValidDescription(data, type) == data = "sdp-" \o type

ValidCandidate(data) == data \notin {Malformed, "empty", "sdp-offer", "sdp-answer"}

\* createOffer() up to `await this.peerConnection.createOffer()`.
createOffer(w, p, t, e) ==
  IF ~w.eng[p][e].pc
  THEN Finish(Threw(w, "NotInitialized"), p, t)
  ELSE PutTask(w, p, [t EXCEPT !.pc = "createOffer", !.eng = e])

\* createAnswer() up to `await this.peerConnection.createAnswer()`.
createAnswer(w, p, t, e) ==
  IF ~w.eng[p][e].pc
  THEN Finish(Threw(w, "NotInitialized"), p, t)
  ELSE PutTask(w, p, [t EXCEPT !.pc = "createAnswer", !.eng = e])

\* handleOffer() up to `await this.peerConnection.setRemoteDescription(...)`.
handleOffer(w, p, t, e) ==
  IF ~w.eng[p][e].pc
  THEN Finish(Threw(w, "NotInitialized"), p, t)
  ELSE PutTask(w, p, [t EXCEPT !.pc = "setRemoteOffer", !.eng = e])

\* handleAnswer() up to `await this.peerConnection.setRemoteDescription(...)`.
handleAnswer(w, p, t, e) ==
  IF ~w.eng[p][e].pc
  THEN Finish(Threw(w, "NotInitialized"), p, t)
  ELSE PutTask(w, p, [t EXCEPT !.pc = "setRemoteAnswer", !.eng = e])

\* addIceCandidate() up to `await this.peerConnection.addIceCandidate(...)`.
addIceCandidate(w, p, t, e) ==
  IF ~w.eng[p][e].pc
  THEN Finish(Threw(w, "NotInitialized"), p, t)
  ELSE IF ~ValidCandidate(t.msg.data)
       THEN Finish(Threw(w, "TypeError"), p, t)
       ELSE PutTask(w, p, [t EXCEPT !.pc = "addIce", !.eng = e])

\* ------------------------------------------------------ ClickToTalkApp
\* handleSignalMessage, case 'offer', from `if (this.webrtc)` on.
offerInitialized(w, p, t) ==
  IF w.webrtc[p] # 0
  THEN handleOffer(w, p, t, w.webrtc[p])
  ELSE Finish([w EXCEPT !.status[p] = "connected"], p, t)

\* The handler after `await this.initializeConnection()`.
afterInitialize(w, p, t) ==
  IF t.msg.type = "offer" THEN offerInitialized(w, p, t) ELSE Finish(w, p, t)

\* initializeConnection from `if (this.isInitiator && this.remotePeerId)` on.
initiatorOffer(w, p, t) ==
  IF w.isInitiator[p] /\ w.remotePeerId[p] # NULL
  THEN createOffer(w, p, t, w.webrtc[p])
  ELSE afterInitialize(w, p, t)

\* initializeConnection up to `await this.webrtc.initialize()`, which runs
\* up to `await navigator.mediaDevices.getUserMedia(...)`.
initializeConnection(w, p, t) ==
  IF w.webrtc[p] # 0
  THEN afterInitialize(w, p, t)
  ELSE LET e == Min(FreeEngines(w, p))
       IN PutTask([w EXCEPT !.webrtc[p] = e,
                            !.eng[p][e] = [BlankEngine EXCEPT !.used = TRUE]],
                  p, [t EXCEPT !.pc = "getUserMedia", !.eng = e])

\* initialize() after getUserMedia resolved (on the object it was called on),
\* then initializeConnection after `await this.webrtc.initialize()`.
initialized(w, p, t) ==
  LET w1 == [w EXCEPT !.eng[p][t.eng] = [@ EXCEPT !.stream = TRUE, !.pc = TRUE,
                                            !.sig = "stable", !.local = FALSE,
                                            !.remote = FALSE]]
  IN IF w1.webrtc[p] = 0
     THEN Finish(Threw(w1, "TypeError"), p, t)
     ELSE initiatorOffer([w1 EXCEPT !.eng[p][w1.webrtc[p]].iceCb = TRUE], p,
                         [t EXCEPT !.stale = (t.eng # w1.webrtc[p])])

\* initialize() when getUserMedia rejects: its catch logs and rethrows,
\* initializeConnection lets the error through, and the catch of
\* handleSignalMessage logs it.  No field is touched on the way.
initializeFailed(w, p, t) ==
  Finish(Threw(w, "MediaError"), p, t)

\* The join case without `if (!this.remotePeerId)`.
joinCaseUnguarded(w, p, t) ==
  initializeConnection([w EXCEPT !.remotePeerId[p] = t.msg.from,
                                 !.isInitiator[p] = TRUE,
                                 !.status[p] = "connected"], p, t)

\* handleSignalMessage, case 'join'.
joinCase(w, p, t) ==
  IF w.remotePeerId[p] = NULL
  THEN initializeConnection([w EXCEPT !.remotePeerId[p] = t.msg.from,
                                      !.isInitiator[p] = TRUE,
                                      !.status[p] = "connected"], p, t)
  ELSE w

\* handleSignalMessage, case 'offer', up to its first await.
offerCase(w, p, t) ==
  initializeConnection([w EXCEPT !.remotePeerId[p] = t.msg.from,
                                 !.isInitiator[p] = FALSE], p, t)

\* The answer case without the comparison with remotePeerId.
answerCaseAnyPeer(w, p, t) ==
  IF w.webrtc[p] # 0 THEN handleAnswer(w, p, t, w.webrtc[p]) ELSE w

\* handleSignalMessage, case 'answer', up to its await.
answerCase(w, p, t) ==
  IF w.webrtc[p] # 0 /\ t.msg.from = w.remotePeerId[p]
  THEN handleAnswer(w, p, t, w.webrtc[p])
  ELSE w

\* handleSignalMessage, case 'ice-candidate', up to its await.
iceCandidateCase(w, p, t) ==
  IF w.webrtc[p] # 0 /\ t.msg.from = w.remotePeerId[p]
  THEN addIceCandidate(w, p, t, w.webrtc[p])
  ELSE w

\* The leave case without the release of the media engine.
leaveCaseKeepsEngine(w, p, t) ==
  IF t.msg.from = w.remotePeerId[p]
  THEN [w EXCEPT !.status[p] = "disconnected", !.remotePeerId[p] = NULL]
  ELSE w

\* handleSignalMessage, case 'leave'.
leaveCase(w, p, t) ==
  IF t.msg.from = w.remotePeerId[p]
  THEN LET w1 == [w EXCEPT !.status[p] = "disconnected", !.remotePeerId[p] = NULL]
       IN IF w1.webrtc[p] # 0
          THEN [close(w1, p, w1.webrtc[p]) EXCEPT !.webrtc[p] = 0]
          ELSE w1
  ELSE w

handleSignalMessage(w, p, m) ==
  LET t == [NoTask EXCEPT !.id = Min(FreeTaskIds(w, p)), !.kind = "msg", !.msg = m]
  IN CASE m.type = "join" -> joinCase(w, p, t)
       [] m.type = "offer" -> offerCase(w, p, t)
       [] m.type = "answer" -> answerCase(w, p, t)
       [] m.type = "ice-candidate" -> iceCandidateCase(w, p, t)
       [] m.type = "leave" -> leaveCase(w, p, t)
       [] OTHER -> w

\* The broadcast callback without the comparison with this.peerId.
channelCallbackUnfiltered(w, p, m) ==
  IF w.cb[p] # NULL
  THEN IF w.cb[p] = "app"
       THEN handleSignalMessage([w EXCEPT !.trace.handled = TRUE], p, m)
       ELSE [w EXCEPT !.trace.handled = TRUE]
  ELSE w

\* The broadcast callback joinRoom registers on the channel.
channelCallback(w, p, m) ==
  IF m.from # p /\ w.cb[p] # NULL
  THEN IF w.cb[p] = "app"
       THEN handleSignalMessage([w EXCEPT !.trace.handled = TRUE], p, m)
       ELSE [w EXCEPT !.trace.handled = TRUE]
  ELSE w

\* ------------------------------------- continuations of the await points
\* The continuations without the status update that follows the answer.
sendSignalReturnedNoStatus(w, p, t) ==
  CASE t.kind \in {"join", "svcJoin"} -> joinRoomReturned(w, p, t)
    [] t.kind \in {"leave", "svcLeave"} -> leaveUnsubscribe(w, p, t)
    [] t.kind = "msg" /\ t.out.type = "offer" -> afterInitialize(w, p, t)
    [] OTHER -> Finish(w, p, t)

\* sendSignal returned to its caller.
sendSignalReturned(w, p, t) ==
  CASE t.kind \in {"join", "svcJoin"} -> joinRoomReturned(w, p, t)
    [] t.kind \in {"leave", "svcLeave"} -> leaveUnsubscribe(w, p, t)
    [] t.kind = "msg" /\ t.out.type = "offer" -> afterInitialize(w, p, t)
    [] t.kind = "msg" /\ t.out.type = "answer" ->
         Finish([w EXCEPT !.status[p] = "connected"], p, t)
    [] OTHER -> Finish(w, p, t)

\* sendSignal after `await supabase.from('signaling').insert(message)`.
signalInserted(w, p, t) ==
  IF w.channel[p] # NoChannel
  THEN PutTask(Broadcast(w, w.channel[p], t.out), p, [t EXCEPT !.pc = "ss_send"])
  ELSE sendSignalReturned(w, p, t)

\* sendSignal after the insert into signaling answered with an error: the
\* row is not stored; the result of the await is not looked at, so the code
\* goes on as after a successful insert.
signalInsertFailed(w, p, t) ==
  signalInserted([w EXCEPT !.signaling = @ (-) One(t.out),
                           !.trace.failed = t.out,
                           !.budget.fails = @ - 1], p, t)

\* sendSignal after the insert, with a channel.send that is not going to
\* reach the relay.
signalInsertedSendFails(w, p, t) ==
  IF w.channel[p] # NoChannel
  THEN PutTask([w EXCEPT !.budget.fails = @ - 1], p, [t EXCEPT !.pc = "ss_send_err"])
  ELSE sendSignalReturned(w, p, t)

\* A sendSignal that throws when channel.send reports an error, under
\* callers that do not catch.
signalSendFailedRaises(w, p, t) ==
  Finish(Threw([w EXCEPT !.trace.failed = t.out], "PublishError"), p, t)

\* sendSignal after channel.send resolved to 'error' or 'timed out': the
\* value is not looked at.
signalSendFailed(w, p, t) ==
  sendSignalReturned([w EXCEPT !.trace.failed = t.out], p, t)

\* joinRoom after the select on rooms answered.
roomSelected(w, p, t) ==
  LET existing == {r \in w.rooms : r.name = t.name}
  IN IF existing # {}
     THEN joinSubscribe(w, p, t, (CHOOSE r \in existing : TRUE).id)
     ELSE PutTask(w, p, [t EXCEPT !.pc = "insertRoom"])

\* joinRoom after the insert into rooms answered; name is UNIQUE.
roomInserted(w, p, t) ==
  IF \E r \in w.rooms : r.name = t.name
  THEN joinRoomFailed(w, p, t)
  ELSE LET rid == Cardinality(w.rooms) + 1
       IN joinSubscribe([w EXCEPT !.rooms = @ \cup {[name |-> t.name, id |-> rid]}],
                        p, t, rid)

\* createOffer() after `await this.peerConnection.createOffer()`.
offerCreated(w, p, t) ==
  PutTask(w, p, [t EXCEPT !.pc = "setLocalOffer"])

\* The offer published as a broadcast, without a target.
localOfferSetNoTarget(w, p, t) ==
  IF w.eng[p][t.eng].sig \in {"stable", "have-local-offer"}
  THEN LET w1 == [w EXCEPT !.eng[p][t.eng] =
                              [@ EXCEPT !.sig = "have-local-offer", !.local = TRUE]]
       IN sendSignal(w1, p, t, "offer", "sdp-offer", NULL,
                     Finish(Threw(w1, "NotJoined"), p, t))
  ELSE Finish(Threw(w, "InvalidState"), p, t)

\* createOffer() after setLocalDescription(offer), then initializeConnection's
\* `await this.signaling.sendSignal('offer', offer, this.remotePeerId)`.
localOfferSet(w, p, t) ==
  IF w.eng[p][t.eng].sig \in {"stable", "have-local-offer"}
  THEN LET w1 == [w EXCEPT !.eng[p][t.eng] =
                              [@ EXCEPT !.sig = "have-local-offer", !.local = TRUE]]
       IN sendSignal(w1, p, t, "offer", "sdp-offer", w1.remotePeerId[p],
                     Finish(Threw(w1, "NotJoined"), p, t))
  ELSE Finish(Threw(w, "InvalidState"), p, t)

\* handleOffer() after setRemoteDescription(offer), then the handler's
\* `await this.webrtc.createAnswer()`.
remoteOfferSet(w, p, t) ==
  IF ~ValidDescription(t.msg.data, "offer")
  THEN Finish(Threw(w, "InvalidDescription"), p, t)
  ELSE
  LET w1 == [w EXCEPT !.eng[p][t.eng] =
                         [@ EXCEPT !.sig = "have-remote-offer", !.remote = TRUE,
                                   !.local = FALSE]]
  IN IF w1.webrtc[p] = 0
     THEN Finish(Threw(w1, "TypeError"), p, t)
     ELSE createAnswer(w1, p, t, w1.webrtc[p])

\* createAnswer() after `await this.peerConnection.createAnswer()`.
answerCreated(w, p, t) ==
  IF w.eng[p][t.eng].sig = "have-remote-offer"
  THEN PutTask(w, p, [t EXCEPT !.pc = "setLocalAnswer"])
  ELSE Finish(Threw(w, "InvalidState"), p, t)

\* createAnswer() after setLocalDescription(answer), then the handler's
\* `await this.signaling.sendSignal('answer', answer, this.remotePeerId)`.
localAnswerSet(w, p, t) ==
  IF w.eng[p][t.eng].sig = "have-remote-offer"
  THEN LET w1 == [w EXCEPT !.eng[p][t.eng] = [@ EXCEPT !.sig = "stable", !.local = TRUE]]
       IN sendSignal(w1, p, t, "answer", "sdp-answer", w1.remotePeerId[p],
                     Finish(Threw(w1, "NotJoined"), p, t))
  ELSE Finish(Threw(w, "InvalidState"), p, t)

\* handleAnswer() after setRemoteDescription(answer), then the handler's
\* updateStatus('Connected! Ready to talk', 'connected').
remoteAnswerSet(w, p, t) ==
  IF ~ValidDescription(t.msg.data, "answer")
  THEN Finish(Threw(w, "InvalidDescription"), p, t)
  ELSE
  IF w.eng[p][t.eng].sig = "have-local-offer"
  THEN Finish([w EXCEPT !.eng[p][t.eng] = [@ EXCEPT !.sig = "stable", !.remote = TRUE],
                        !.status[p] = "connected"], p, t)
  ELSE Finish(Threw(w, "InvalidState"), p, t)

\* addIceCandidate() after `await this.peerConnection.addIceCandidate(...)`:
\* the link rejects a candidate while it has no remote description.
iceCandidateAdded(w, p, t) ==
  IF w.eng[p][t.eng].remote
  THEN Finish([w EXCEPT !.eng[p][t.eng].cands = Append(@, t.msg.data)], p, t)
  ELSE Finish(Threw(w, "InvalidState"), p, t)

\* The onIceCandidate callback initializeConnection registers.
onIceCandidate(w, p, e) ==
  LET t == [NoTask EXCEPT !.id = Min(FreeTaskIds(w, p)), !.kind = "ice"]
  IN IF w.remotePeerId[p] # NULL
     THEN sendSignal(w, p, t, "ice-candidate", CandName(w.eng[p][e].emitted),
                     w.remotePeerId[p], Threw(w, "NotJoined"))
     ELSE w

\* RTCPeerConnection.onicecandidate, as initialize() sets it.
peerConnectionIceCandidate(w, p, e) ==
  LET w1 == [w EXCEPT !.eng[p][e].emitted = @ + 1]
  IN IF w1.eng[p][e].iceCb THEN onIceCandidate(w1, p, e) ELSE w1

\* ------------------------------------------------------------ the steps
NoDelivery == [peer |-> NULL, msg |-> NoMsg]

\* `failed` is the message whose insert or broadcast reported an error in
\* the step.
NoTrace == [threw |-> "none", op |-> "none", who |-> NULL, delivered |-> NoDelivery,
            handled |-> FALSE, failed |-> NoMsg]

\* The state a step starts from: the observations of the last step are gone.
Start == [World EXCEPT !.trace = NoTrace]

Referenced(w, p, e) == w.webrtc[p] = e \/ \E t \in w.tasks[p] : t.eng = e

\* A WebRTCConnection nothing refers to any more is garbage.  If it still
\* holds a live capture or an open link, that is recorded first.
Collect(w) ==
  LET dead(p) == {e \in 1..MaxEngines : w.eng[p][e].used /\ ~Referenced(w, p, e)}
      leaks(p) == \E e \in dead(p) : w.eng[p][e].stream \/ w.eng[p][e].pc
  IN [w EXCEPT !.eng = [p \in Peers |->
                          [e \in 1..MaxEngines |->
                             IF e \in dead(p) THEN BlankEngine ELSE w.eng[p][e]]],
               !.budget.leaked = [p \in Peers |-> @[p] \/ leaks(p)]]

Apply(w0) ==
  \E w \in {Collect(w0)} :
     /\ rooms' = w.rooms
     /\ signaling' = w.signaling
     /\ subs' = w.subs
     /\ inflight' = w.inflight
     /\ roomId' = w.roomId
     /\ channel' = w.channel
     /\ cb' = w.cb
     /\ remotePeerId' = w.remotePeerId
     /\ isInitiator' = w.isInitiator
     /\ webrtc' = w.webrtc
     /\ status' = w.status
     /\ view' = w.view
     /\ eng' = w.eng
     /\ tasks' = w.tasks
     /\ budget' = w.budget
     /\ trace' = w.trace
     /\ UNCHANGED serverVars

NewTask(p, kind) == [NoTask EXCEPT !.id = Min(FreeTaskIds(World, p)), !.kind = kind]

\* SignalingService.joinRoom up to the await of the select on rooms.
joinRoom(w, p, t, roomName) ==
  PutTask(w, p, [t EXCEPT !.pc = "select", !.name = roomName])

\* ClickToTalkApp.joinRoom up to `await this.signaling.joinRoom(roomName)`.
\* The Enter key on the room input calls it whatever the join button's state.
JoinRoom(p) ==
  \E roomName \in RoomNames :
    /\ view[p] = "join"
    /\ budget.joins[p] > 0
    /\ FreeTaskIds(World, p) # {}
    /\ Apply(joinRoom([Start EXCEPT !.status[p] = "connecting",
                                    !.budget.joins[p] = @ - 1,
                                    !.trace.op = "joinRoom", !.trace.who = p],
                      p, NewTask(p, "join"), roomName))

\* ClickToTalkApp.leaveRoom up to the first await inside signaling.leave().
LeaveRoom(p) ==
  /\ view[p] = "call"
  /\ budget.leaves[p] > 0
  /\ FreeTaskIds(World, p) # {}
  /\ Apply(leave([Start EXCEPT !.budget.leaves[p] = @ - 1, !.trace.op = "leaveRoom", !.trace.who = p],
                 p, NewTask(p, "leave")))

\* An awaited operation completes and the invocation runs to its next await.
\* the select on rooms answers.
RoomSelected(p) ==
  \E t \in tasks[p] : t.pc = "select" /\ Apply(roomSelected(Start, p, t))

\* the insert into rooms answers.
RoomInserted(p) ==
  \E t \in tasks[p] : t.pc = "insertRoom" /\ Apply(roomInserted(Start, p, t))

\* the insert into signaling answers.
SignalInserted(p) ==
  \E t \in tasks[p] : t.pc = "ss_insert" /\ Apply(signalInserted(Start, p, t))

\* channel.send answers.
SignalSent(p) ==
  \E t \in tasks[p] : t.pc = "ss_send" /\ Apply(sendSignalReturned(Start, p, t))

\* the insert into signaling answers with an error.
SignalInsertFailed(p) ==
  \E t \in tasks[p] :
    t.pc = "ss_insert" /\ budget.fails > 0 /\ Apply(signalInsertFailed(Start, p, t))

\* the insert into signaling answers, and the broadcast that follows is lost.
SignalInsertedSendFails(p) ==
  \E t \in tasks[p] :
    /\ t.pc = "ss_insert" /\ budget.fails > 0 /\ channel[p] # NoChannel
    /\ Apply(signalInsertedSendFails(Start, p, t))

\* channel.send answers 'error' or 'timed out'.
SignalSendFailed(p) ==
  \E t \in tasks[p] : t.pc = "ss_send_err" /\ Apply(signalSendFailed(Start, p, t))

\* channel.unsubscribe answers.
Unsubscribed(p) ==
  \E t \in tasks[p] : t.pc = "unsubscribe" /\ Apply(leaveUnsubscribed(Start, p, t))

\* getUserMedia resolves.
Initialized(p) ==
  \E t \in tasks[p] : t.pc = "getUserMedia" /\ Apply(initialized(Start, p, t))

\* getUserMedia rejects (permission denied, no device).
InitializeFailed(p) ==
  \E t \in tasks[p] :
    /\ t.pc = "getUserMedia"
    /\ Apply(initializeFailed([Start EXCEPT !.trace.op = "getUserMedia", !.trace.who = p], p, t))

\* RTCPeerConnection.createOffer resolves.
OfferCreated(p) ==
  \E t \in tasks[p] : t.pc = "createOffer" /\ Apply(offerCreated(Start, p, t))

\* setLocalDescription(offer) settles.
LocalOfferSet(p) ==
  \E t \in tasks[p] : t.pc = "setLocalOffer" /\ Apply(localOfferSet(Start, p, t))

\* setRemoteDescription(offer) resolves.
RemoteOfferSet(p) ==
  \E t \in tasks[p] : t.pc = "setRemoteOffer" /\ Apply(remoteOfferSet(Start, p, t))

\* RTCPeerConnection.createAnswer settles.
AnswerCreated(p) ==
  \E t \in tasks[p] : t.pc = "createAnswer" /\ Apply(answerCreated(Start, p, t))

\* setLocalDescription(answer) settles.
LocalAnswerSet(p) ==
  \E t \in tasks[p] : t.pc = "setLocalAnswer" /\ Apply(localAnswerSet(Start, p, t))

\* setRemoteDescription(answer) settles.
RemoteAnswerSet(p) ==
  \E t \in tasks[p] : t.pc = "setRemoteAnswer" /\ Apply(remoteAnswerSet(Start, p, t))

\* RTCPeerConnection.addIceCandidate settles.
IceCandidateAdded(p) ==
  \E t \in tasks[p] : t.pc = "addIce" /\ Apply(iceCandidateAdded(Start, p, t))

\* The relay delivers one message to one subscription.
Deliver(p) ==
  \E d \in BagToSet(inflight) :
    /\ d.peer = p
    /\ FreeTaskIds(World, p) # {}
    /\ (webrtc[p] = 0 /\ d.msg.type \in {"join", "offer"}) => FreeEngines(World, p) # {}
    /\ Apply(channelCallback([Start EXCEPT !.inflight = @ (-) One(d),
                                           !.trace.delivered = [peer |-> p, msg |-> d.msg]],
                             p, d.msg))

\* The relay delivers a message to a subscription and keeps it for another
\* delivery (at-least-once delivery).
Redeliver(p) ==
  \E d \in BagToSet(inflight) :
    /\ d.peer = p
    /\ budget.dups > 0
    /\ FreeTaskIds(World, p) # {}
    /\ (webrtc[p] = 0 /\ d.msg.type \in {"join", "offer"}) => FreeEngines(World, p) # {}
    /\ Apply(channelCallback([Start EXCEPT !.budget.dups = @ - 1,
                                           !.trace.delivered = [peer |-> p, msg |-> d.msg]],
                             p, d.msg))

\* The media engine emits a local candidate once a local description is set.
EmitCandidate(p) ==
  \E e \in 1..MaxEngines :
    /\ eng[p][e].pc /\ eng[p][e].local
    /\ eng[p][e].emitted < budget.cands
    /\ FreeTaskIds(World, p) # {}
    /\ Apply(peerConnectionIceCandidate(Start, p, e))

\* The third peer publishes a message of the wire shape in an existing room.
StrayData(type) ==
  CASE type = "offer" -> "sdp-offer"
    [] type = "answer" -> "sdp-answer"
    [] type = "ice-candidate" -> "cx"
    [] OTHER -> "empty"

Stray ==
  \E type \in SignalTypes, r \in rooms, to \in Peers \cup {NULL} :
    /\ budget.stray > 0
    /\ \E s \in subs : s.room = r.id
    /\ (to = NULL) = (type \in {"join", "leave"})
    /\ LET m == [room |-> r.id, type |-> type, from |-> Stranger, to |-> to,
                 data |-> StrayData(type)]
       IN Apply(Broadcast([Start EXCEPT !.signaling = @ (+) One(m),
                                        !.budget.stray = @ - 1],
                          [ch |-> 0, room |-> r.id], m))

\* A message whose payload does not match its kind reaches the room, under
\* the peer id of the third peer or of a session.
StrayMalformed ==
  \E type \in {"offer", "answer", "ice-candidate"}, r \in rooms,
     from \in Peers \cup {Stranger}, to \in Peers :
    /\ budget.stray > 0
    /\ from # to
    /\ \E s \in subs : s.room = r.id
    /\ LET m == [room |-> r.id, type |-> type, from |-> from, to |-> to,
                 data |-> Malformed]
       IN Apply(Broadcast([Start EXCEPT !.signaling = @ (+) One(m),
                                        !.budget.stray = @ - 1],
                          [ch |-> 0, room |-> r.id], m))

\* Direct calls of the SignalingService's public methods.
Other(p) == CHOOSE q \in Peers : q # p

CallJoinRoom(p) ==
  \E roomName \in RoomNames :
    /\ budget.calls[p] > 0
    /\ FreeTaskIds(World, p) # {}
    /\ Apply(joinRoom([Start EXCEPT !.budget.calls[p] = @ - 1, !.trace.op = "joinRoom", !.trace.who = p],
                      p, NewTask(p, "svcJoin"), roomName))

\* joinRoom called with the name of another room.
CallJoinOther(p) ==
  /\ budget.calls[p] > 0
  /\ FreeTaskIds(World, p) # {}
  /\ Apply(joinRoom([Start EXCEPT !.budget.calls[p] = @ - 1, !.trace.op = "joinRoom", !.trace.who = p],
                    p, NewTask(p, "svcJoin"), "other"))

CallSendSignal(p) ==
  /\ budget.calls[p] > 0
  /\ FreeTaskIds(World, p) # {}
  /\ LET w == [Start EXCEPT !.budget.calls[p] = @ - 1, !.trace.op = "sendSignal", !.trace.who = p]
     IN Apply(sendSignal(w, p, NewTask(p, "svcSend"), "offer", "sdp-offer", Other(p),
                         Threw(w, "NotJoined")))

CallOnMessage(p) ==
  /\ budget.calls[p] > 0
  /\ cb[p] = NULL
  /\ Apply([Start EXCEPT !.budget.calls[p] = @ - 1, !.cb[p] = "probe",
                         !.trace.op = "onMessage", !.trace.who = p])

CallLeave(p) ==
  /\ budget.calls[p] > 0
  /\ FreeTaskIds(World, p) # {}
  /\ Apply(leave([Start EXCEPT !.budget.calls[p] = @ - 1, !.trace.op = "leave", !.trace.who = p],
                 p, NewTask(p, "svcLeave")))

\* ------------------------------------------------- the phonebook server
Accounts == {"U", "V"}                  \* Google accounts that sign in
PhoneNumbers == {"5550001", "5550002"}  \* values the phone regex accepts
Codenames == {"ann", "5550001"}         \* values validateCodename accepts

NoResponse == [to |-> NULL, route |-> "none", status |-> 0, body |-> {}]

ServerInit ==
  /\ users = {}
  /\ session = [a \in Accounts |-> [type |-> "new", id |-> 0]]
  /\ response = NoResponse
  /\ callLogs = {}
  /\ legs = {}
  /\ requests = {}

\* isCodenameAvailable(codename, excludeUserId).
isCodenameAvailable(table, codename, excludeUserId) ==
  {u \in table : u.codename = codename /\ u.id # excludeUserId} = {}

\* The query without its WHERE clause.
getAllUsers(table, userId) ==
  {[id |-> u.id, codename |-> u.codename] : u \in table}

\* getAllUsersExcept(userId): SELECT id, codename FROM users WHERE id != $1.
getAllUsersExcept(table, userId) ==
  {[id |-> u.id, codename |-> u.codename] : u \in {x \in table : x.id # userId}}

\* The body of the phonebook response: users.map(u => ({id, codename})).
phonebookBody(rows) == {[id |-> r.id, codename |-> r.codename] : r \in rows}

\* POST /register.
Register(a) ==
  \E phoneNumber \in PhoneNumbers, codename \in Codenames :
    /\ UNCHANGED talkVars
    /\ UNCHANGED <<callLogs, legs, requests>>
    /\ IF session[a].type = "existing" \/ ~isCodenameAvailable(users, codename, 0)
       THEN /\ response' = [to |-> a, route |-> "register", status |-> 400, body |-> {}]
            /\ UNCHANGED <<users, session>>
       ELSE LET id == Cardinality(users) + 1
                user == [id |-> id, google_id |-> a, phone_number |-> phoneNumber,
                         codename |-> codename]
            IN /\ users' = users \cup {user}
               /\ session' = [session EXCEPT ![a] = [type |-> "existing", id |-> id]]
               /\ response' = [to |-> a, route |-> "register", status |-> 200,
                                body |-> {[id |-> id, phoneNumber |-> phoneNumber,
                                           codename |-> codename]}]

\* PUT /profile.
UpdateProfile(a) ==
  \E phoneNumber \in PhoneNumbers, codename \in Codenames :
    /\ UNCHANGED talkVars
    /\ UNCHANGED <<callLogs, legs, requests>>
    /\ UNCHANGED session
    /\ IF session[a].type # "existing"
       THEN /\ response' = [to |-> a, route |-> "profile", status |-> 403, body |-> {}]
            /\ UNCHANGED users
       ELSE IF ~isCodenameAvailable(users, codename, session[a].id)
       THEN /\ response' = [to |-> a, route |-> "profile", status |-> 400, body |-> {}]
            /\ UNCHANGED users
       ELSE /\ users' = {IF u.id = session[a].id
                         THEN [u EXCEPT !.phone_number = phoneNumber, !.codename = codename]
                         ELSE u : u \in users}
            /\ response' = [to |-> a, route |-> "profile", status |-> 200,
                             body |-> {[id |-> session[a].id, phoneNumber |-> phoneNumber,
                                        codename |-> codename]}]

\* GET /phonebook, behind isAuthenticated and isRegistered.
GetPhonebook(a) ==
  /\ UNCHANGED talkVars
  /\ UNCHANGED <<callLogs, legs, requests>>
  /\ UNCHANGED <<users, session>>
  /\ IF session[a].type # "existing"
     THEN response' = [to |-> a, route |-> "phonebook", status |-> 403, body |-> {}]
     ELSE response' = [to |-> a, route |-> "phonebook", status |-> 200,
                       body |-> phonebookBody(getAllUsersExcept(users, session[a].id))]

\* ------------------------------------------------------ the call routes
TerminalStatuses == {"completed", "busy", "no-answer", "canceled", "failed"}

\* What a call placed by Twilio can become next.
NextCallStatus(state) ==
  CASE state = "queued" -> {"initiated", "canceled", "failed"}
    [] state = "initiated" -> {"ringing", "canceled", "failed"}
    [] state = "ringing" -> {"in-progress", "busy", "no-answer", "canceled", "failed"}
    [] state = "in-progress" -> {"completed"}
    [] OTHER -> {}

getUserById(table, id) == {u \in table : u.id = id}

\* createCallLog(callerId, calleeId): status takes the column default.
createCallLog(table, callerId, calleeId) ==
  table \cup {[id |-> Cardinality(table) + 1, caller_id |-> callerId,
                callee_id |-> calleeId, twilio_conference_sid |-> NULL,
                status |-> "initiated", ended_at |-> NULL]}

getCallLogById(table, id) == {l \in table : l.id = id}

\* updateCallLog(id, {twilioConferenceSid, status, endedAt}): only the
\* fields that are present are written.
updateCallLog(table, id, updates) ==
  IF DOMAIN updates \cap {"twilioConferenceSid", "status", "endedAt"} = {}
  THEN table
  ELSE {IF l.id # id THEN l
        ELSE [l EXCEPT
                !.twilio_conference_sid = IF "twilioConferenceSid" \in DOMAIN updates
                                          THEN updates.twilioConferenceSid ELSE @,
                !.status = IF "status" \in DOMAIN updates THEN updates.status ELSE @,
                !.ended_at = IF "endedAt" \in DOMAIN updates THEN updates.endedAt ELSE @]
        : l \in table}

\* initiateBridgedCall: one call to each party, both with the status
\* callback /status/<callLogId>.
initiateBridgedCall(callLogId) ==
  {[log |-> callLogId, participant |-> x, state |-> "queued"] : x \in {"caller", "callee"}}

\* The switch of the status route: Twilio's CallStatus to the stored status.
mapCallStatus(CallStatus, current) ==
  CASE CallStatus \in {"initiated", "ringing"} -> "ringing"
    [] CallStatus = "in-progress" -> "in-progress"
    [] CallStatus = "completed" -> "completed"
    [] CallStatus \in {"busy", "no-answer", "canceled", "failed"} -> CallStatus
    [] OTHER -> current

\* POST /initiate/:calleeId up to `await initiateBridgedCall(...)`, with
\* Twilio configured.
InitiateCall(a) ==
  \E calleeId \in 1..Cardinality(Accounts) :
    /\ UNCHANGED talkVars
    /\ UNCHANGED <<users, session>>
    /\ IF session[a].type # "existing"
       THEN /\ response' = [to |-> a, route |-> "initiate", status |-> 401, body |-> {}]
            /\ UNCHANGED <<callLogs, legs, requests>>
       ELSE IF session[a].id = calleeId
       THEN /\ response' = [to |-> a, route |-> "initiate", status |-> 400, body |-> {}]
            /\ UNCHANGED <<callLogs, legs, requests>>
       ELSE IF getUserById(users, calleeId) = {}
       THEN /\ response' = [to |-> a, route |-> "initiate", status |-> 404, body |-> {}]
            /\ UNCHANGED <<callLogs, legs, requests>>
       ELSE /\ Cardinality(callLogs) < MaxCallLogs
            /\ LET callLogId == Cardinality(callLogs) + 1
               IN /\ callLogs' = createCallLog(callLogs, session[a].id, calleeId)
                  /\ legs' = legs \cup initiateBridgedCall(callLogId)
                  /\ requests' = requests \cup
                       {[kind |-> "initiate", log |-> callLogId, from |-> a,
                         CallStatus |-> NULL, seen |-> NULL, pc |-> "bridged"]}
            /\ UNCHANGED response

\* POST /initiate/:calleeId after `await initiateBridgedCall(...)`.
CallBridged ==
  \E r \in requests :
    /\ r.kind = "initiate"
    /\ callLogs' = updateCallLog(callLogs, r.log,
                                 [twilioConferenceSid |-> "conference", status |-> "connecting"])
    /\ requests' = requests \ {r}
    /\ response' = [to |-> r.from, route |-> "initiate", status |-> 200, body |-> {}]
    /\ UNCHANGED <<users, session, legs>>
    /\ UNCHANGED talkVars

\* A call placed by Twilio changes state and Twilio posts the new state to
\* the call's status callback; the next change waits for the answer.
CallProgress ==
  \E l \in legs :
    \E state \in NextCallStatus(l.state) :
      /\ ~\E r \in requests : r.kind = "status" /\ r.log = l.log /\ r.from = l.participant
      /\ legs' = (legs \ {l}) \cup {[l EXCEPT !.state = state]}
      /\ requests' = requests \cup
           {[kind |-> "status", log |-> l.log, from |-> l.participant,
             CallStatus |-> state, seen |-> NULL, pc |-> "sent"]}
      /\ UNCHANGED <<users, session, response, callLogs>>
      /\ UNCHANGED talkVars

\* POST /status/:callLogId up to the answer of getCallLogById.
StatusWebhook ==
  \E r \in requests :
    /\ r.kind = "status" /\ r.pc = "sent"
    /\ IF getCallLogById(callLogs, r.log) = {}
       THEN /\ requests' = requests \ {r}
            /\ response' = [to |-> "twilio", route |-> "status", status |-> 404, body |-> {}]
       ELSE /\ \E callLog \in getCallLogById(callLogs, r.log) :
                 requests' = (requests \ {r}) \cup
                               {[r EXCEPT !.pc = "read", !.seen = callLog.status]}
            /\ UNCHANGED response
    /\ UNCHANGED <<users, session, callLogs, legs>>
    /\ UNCHANGED talkVars

\* POST /status/:callLogId from the switch to res.sendStatus(200).
StatusUpdated ==
  \E r \in requests :
    /\ r.kind = "status" /\ r.pc = "read"
    /\ LET mapped == mapCallStatus(r.CallStatus, r.seen)
           updates == IF r.CallStatus \in TerminalStatuses
                      THEN [status |-> mapped, endedAt |-> "now"]
                      ELSE [status |-> mapped]
       IN callLogs' = updateCallLog(callLogs, r.log, updates)
    /\ requests' = requests \ {r}
    /\ response' = [to |-> "twilio", route |-> "status", status |-> 200, body |-> {}]
    /\ UNCHANGED <<users, session, legs>>
    /\ UNCHANGED talkVars

\* ------------------------------------------------------- specifications
InitWith(b) ==
  /\ rooms = {}
  /\ signaling = EmptyBag
  /\ subs = {}
  /\ inflight = EmptyBag
  /\ roomId = [p \in Peers |-> 0]
  /\ channel = [p \in Peers |-> NoChannel]
  /\ cb = [p \in Peers |-> NULL]
  /\ remotePeerId = [p \in Peers |-> NULL]
  /\ isInitiator = [p \in Peers |-> FALSE]
  /\ webrtc = [p \in Peers |-> 0]
  /\ status = [p \in Peers |-> "connecting"]
  /\ view = [p \in Peers |-> "join"]
  /\ eng = [p \in Peers |-> [e \in 1..MaxEngines |-> BlankEngine]]
  /\ tasks = [p \in Peers |-> {}]
  /\ budget = b
  /\ trace = NoTrace
  /\ ServerInit

\* The state once session First has joined room "demo" alone: what Spec
\* reaches by JoinRoom, RoomSelected, RoomInserted, SignalInserted, SignalSent.
InitJoined(b) ==
  LET join == [room |-> 1, type |-> "join", from |-> First, to |-> NULL, data |-> "empty"]
  IN /\ rooms = {[name |-> "demo", id |-> 1]}
     /\ signaling = One(join)
     /\ subs = {[peer |-> First, ch |-> 1, room |-> 1]}
     /\ inflight = EmptyBag
     /\ roomId = [p \in Peers |-> IF p = First THEN 1 ELSE 0]
     /\ channel = [p \in Peers |-> IF p = First THEN [ch |-> 1, room |-> 1] ELSE NoChannel]
     /\ cb = [p \in Peers |-> IF p = First THEN "app" ELSE NULL]
     /\ remotePeerId = [p \in Peers |-> NULL]
     /\ isInitiator = [p \in Peers |-> FALSE]
     /\ webrtc = [p \in Peers |-> 0]
     /\ status = [p \in Peers |-> "connecting"]
     /\ view = [p \in Peers |-> IF p = First THEN "call" ELSE "join"]
     /\ eng = [p \in Peers |-> [e \in 1..MaxEngines |-> BlankEngine]]
     /\ tasks = [p \in Peers |-> {}]
     /\ budget = b
     /\ trace = NoTrace
     /\ ServerInit

NoBudget == [joins |-> [p \in Peers |-> 0], leaves |-> [p \in Peers |-> 0],
             stray |-> 0, cands |-> 0, calls |-> [p \in Peers |-> 0],
             leaked |-> [p \in Peers |-> FALSE], echo |-> FALSE, fails |-> 0, dups |-> 0]

Init ==
  InitWith([NoBudget EXCEPT !.joins = [p \in Peers |-> MaxJoins],
                            !.leaves = [p \in Peers |-> IF p \in Leavers THEN MaxLeaves ELSE 0]])

Next ==
  \E p \in Peers :
    \/ JoinRoom(p)
    \/ LeaveRoom(p)
    \/ RoomSelected(p)
    \/ RoomInserted(p)
    \/ SignalInserted(p)
    \/ SignalSent(p)
    \/ Unsubscribed(p)
    \/ Deliver(p)
    \/ Initialized(p)
    \/ OfferCreated(p)
    \/ LocalOfferSet(p)
    \/ RemoteOfferSet(p)
    \/ AnswerCreated(p)
    \/ LocalAnswerSet(p)
    \/ RemoteAnswerSet(p)

Spec == Init /\ [][Next]_vars

\* One session alone whose user presses Enter in the room input more than once.
InitRejoin ==
  InitWith([NoBudget EXCEPT !.joins = [p \in Peers |-> IF p = First THEN MaxJoins + 1 ELSE 0],
                            !.leaves = [p \in Peers |-> IF p = First THEN MaxLeaves ELSE 0]])

NextRejoin ==
  \E p \in Peers :
    \/ JoinRoom(p)
    \/ LeaveRoom(p)
    \/ RoomSelected(p)
    \/ RoomInserted(p)
    \/ SignalInserted(p)
    \/ SignalSent(p)
    \/ Unsubscribed(p)

SpecRejoin == InitRejoin /\ [][NextRejoin]_vars

\* The same session, with a third peer publishing into the room.
InitLeak ==
  InitWith([NoBudget EXCEPT !.joins = [p \in Peers |-> IF p = First THEN MaxJoins + 1 ELSE 0],
                            !.leaves = [p \in Peers |-> IF p = First THEN MaxLeaves ELSE 0],
                            !.stray = MaxStray])

NextLeak ==
  \/ Stray
  \/ \E p \in Peers :
       \/ JoinRoom(p)
       \/ LeaveRoom(p)
       \/ RoomSelected(p)
       \/ RoomInserted(p)
       \/ SignalInserted(p)
       \/ SignalSent(p)
       \/ Unsubscribed(p)
       \/ Deliver(p)
       \/ Initialized(p)
       \/ OfferCreated(p)
       \/ LocalOfferSet(p)
       \/ RemoteOfferSet(p)
       \/ AnswerCreated(p)
       \/ LocalAnswerSet(p)

SpecLeak == InitLeak /\ [][NextLeak]_vars

\* The same sessions, never left, with a third peer publishing into the room.
InitStray ==
  InitJoined([NoBudget EXCEPT !.joins = [p \in Peers |-> IF p = First THEN 0 ELSE MaxJoins],
                              !.stray = MaxStray])

NextStray ==
  \/ Stray
  \/ \E p \in Peers :
       \/ JoinRoom(p)
       \/ RoomSelected(p)
       \/ SignalInserted(p)
       \/ SignalSent(p)
       \/ Deliver(p)
       \/ Initialized(p)
       \/ OfferCreated(p)
       \/ LocalOfferSet(p)
       \/ RemoteOfferSet(p)
       \/ AnswerCreated(p)
       \/ LocalAnswerSet(p)
       \/ RemoteAnswerSet(p)

SpecStray == InitStray /\ [][NextStray]_vars

\* The same sessions, never left, with the media engines emitting candidates.
InitIce ==
  InitJoined([NoBudget EXCEPT !.joins = [p \in Peers |-> IF p = First THEN 0 ELSE MaxJoins],
                              !.cands = MaxCand])

NextIce ==
  \E p \in Peers :
    \/ JoinRoom(p)
    \/ RoomSelected(p)
    \/ SignalInserted(p)
    \/ SignalSent(p)
    \/ Deliver(p)
    \/ Initialized(p)
    \/ OfferCreated(p)
    \/ LocalOfferSet(p)
    \/ RemoteOfferSet(p)
    \/ AnswerCreated(p)
    \/ LocalAnswerSet(p)
    \/ RemoteAnswerSet(p)
    \/ IceCandidateAdded(p)
    \/ EmitCandidate(p)

SpecIce == InitIce /\ [][NextIce]_vars

\* Two SignalingService objects called directly, in any order.
InitSession ==
  InitWith([NoBudget EXCEPT !.calls = [p \in Peers |-> IF p = First THEN MaxCalls ELSE 1]])

NextSession ==
  \E p \in Peers :
    \/ CallJoinRoom(p)
    \/ CallSendSignal(p)
    \/ CallOnMessage(p)
    \/ CallLeave(p)
    \/ RoomSelected(p)
    \/ RoomInserted(p)
    \/ SignalInserted(p)
    \/ SignalSent(p)
    \/ Unsubscribed(p)
    \/ Deliver(p)

SpecSession == InitSession /\ [][NextSession]_vars

\* The same sessions, never left, on a relay that echoes a message to the
\* subscriptions of its sender.
InitEcho ==
  InitJoined([NoBudget EXCEPT !.joins = [p \in Peers |-> IF p = First THEN 0 ELSE MaxJoins],
                              !.echo = TRUE])

NextEcho ==
  \E p \in Peers :
    \/ JoinRoom(p)
    \/ RoomSelected(p)
    \/ SignalInserted(p)
    \/ SignalSent(p)
    \/ Deliver(p)
    \/ Initialized(p)
    \/ OfferCreated(p)
    \/ LocalOfferSet(p)
    \/ RemoteOfferSet(p)
    \/ AnswerCreated(p)
    \/ LocalAnswerSet(p)
    \/ RemoteAnswerSet(p)

SpecEcho == InitEcho /\ [][NextEcho]_vars

\* The second session joins, the first may leave, the media engines emit
\* candidates.
InitFull ==
  InitJoined([NoBudget EXCEPT !.joins = [p \in Peers |-> IF p = First THEN 0 ELSE MaxJoins],
                              !.leaves = [p \in Peers |-> IF p \in Leavers THEN MaxLeaves ELSE 0],
                              !.cands = MaxCand])

NextFull ==
  \/ \E p \in Peers :
       \/ JoinRoom(p)
       \/ LeaveRoom(p)
       \/ RoomSelected(p)
       \/ SignalInserted(p)
       \/ SignalSent(p)
       \/ Unsubscribed(p)
       \/ Deliver(p)
       \/ Initialized(p)
       \/ OfferCreated(p)
       \/ LocalOfferSet(p)
       \/ RemoteOfferSet(p)
       \/ AnswerCreated(p)
       \/ LocalAnswerSet(p)
       \/ RemoteAnswerSet(p)
       \/ IceCandidateAdded(p)
       \/ EmitCandidate(p)

SpecFull == InitFull /\ [][NextFull]_vars

\* The same sessions, never left, with local media acquisition that may
\* fail and a third peer publishing into the room.
InitMedia ==
  InitJoined([NoBudget EXCEPT !.joins = [p \in Peers |-> IF p = First THEN 0 ELSE MaxJoins],
                              !.stray = MaxStray])

NextMedia ==
  \/ Stray
  \/ \E p \in Peers :
    \/ JoinRoom(p)
    \/ RoomSelected(p)
    \/ SignalInserted(p)
    \/ SignalSent(p)
    \/ Deliver(p)
    \/ Initialized(p)
    \/ InitializeFailed(p)
    \/ OfferCreated(p)
    \/ LocalOfferSet(p)
    \/ RemoteOfferSet(p)
    \/ AnswerCreated(p)
    \/ LocalAnswerSet(p)
    \/ RemoteAnswerSet(p)

SpecMedia == InitMedia /\ [][NextMedia]_vars

\* The same sessions, never left, with one malformed message in the room.
InitMalformed ==
  InitJoined([NoBudget EXCEPT !.joins = [p \in Peers |-> IF p = First THEN 0 ELSE MaxJoins],
                              !.stray = MaxStray])

NextMalformed ==
  \/ StrayMalformed
  \/ \E p \in Peers :
       \/ JoinRoom(p)
       \/ RoomSelected(p)
       \/ SignalInserted(p)
       \/ SignalSent(p)
       \/ Deliver(p)
       \/ Initialized(p)
       \/ OfferCreated(p)
       \/ LocalOfferSet(p)
       \/ RemoteOfferSet(p)
       \/ AnswerCreated(p)
       \/ LocalAnswerSet(p)
       \/ RemoteAnswerSet(p)

SpecMalformed == InitMalformed /\ [][NextMalformed]_vars

\* The phonebook server alone: accounts register, edit their profile and
\* fetch the phonebook, in any order.
InitServer == InitWith(NoBudget)

NextServer ==
  \E a \in Accounts :
    \/ Register(a)
    \/ UpdateProfile(a)
    \/ GetPhonebook(a)

SpecServer == InitServer /\ [][NextServer]_vars

\* The call routes: accounts register, one calls the other, Twilio places
\* the two calls and reports their progress.
NextCalls ==
  \/ \E a \in Accounts : Register(a) \/ InitiateCall(a)
  \/ CallBridged
  \/ CallProgress
  \/ StatusWebhook
  \/ StatusUpdated

SpecCalls == InitServer /\ [][NextCalls]_vars

\* Two sessions that join the same room and never leave, on a relay that
\* delivers every message in flight and with awaited operations that all
\* complete: every step that stays possible is eventually taken.
InitLive ==
  InitWith([NoBudget EXCEPT !.joins = [p \in Peers |-> MaxJoins]])

NextLive ==
  \E p \in Peers :
    \/ JoinRoom(p)
    \/ RoomSelected(p)
    \/ RoomInserted(p)
    \/ SignalInserted(p)
    \/ SignalSent(p)
    \/ Deliver(p)
    \/ Initialized(p)
    \/ OfferCreated(p)
    \/ LocalOfferSet(p)
    \/ RemoteOfferSet(p)
    \/ AnswerCreated(p)
    \/ LocalAnswerSet(p)
    \/ RemoteAnswerSet(p)

Fairness ==
  \A p \in Peers :
    /\ WF_vars(JoinRoom(p))
    /\ WF_vars(RoomSelected(p))
    /\ WF_vars(RoomInserted(p))
    /\ WF_vars(SignalInserted(p))
    /\ WF_vars(SignalSent(p))
    /\ WF_vars(Deliver(p))
    /\ WF_vars(Initialized(p))
    /\ WF_vars(OfferCreated(p))
    /\ WF_vars(LocalOfferSet(p))
    /\ WF_vars(RemoteOfferSet(p))
    /\ WF_vars(AnswerCreated(p))
    /\ WF_vars(LocalAnswerSet(p))
    /\ WF_vars(RemoteAnswerSet(p))

SpecLive == InitLive /\ [][NextLive]_vars /\ Fairness

\* The second session joins, the first may leave, and publishing to the
\* relay may report an error.
InitPublish ==
  InitJoined([NoBudget EXCEPT !.joins = [p \in Peers |-> IF p = First THEN 0 ELSE MaxJoins],
                              !.leaves = [p \in Peers |-> IF p \in Leavers THEN MaxLeaves ELSE 0],
                              !.fails = MaxFails])

NextPublish ==
  \E p \in Peers :
    \/ JoinRoom(p)
    \/ LeaveRoom(p)
    \/ RoomSelected(p)
    \/ SignalInserted(p)
    \/ SignalInsertFailed(p)
    \/ SignalInsertedSendFails(p)
    \/ SignalSent(p)
    \/ SignalSendFailed(p)
    \/ Unsubscribed(p)
    \/ Deliver(p)
    \/ Initialized(p)
    \/ OfferCreated(p)
    \/ LocalOfferSet(p)
    \/ RemoteOfferSet(p)
    \/ AnswerCreated(p)
    \/ LocalAnswerSet(p)
    \/ RemoteAnswerSet(p)

SpecPublish == InitPublish /\ [][NextPublish]_vars

\* The second session joins a relay that may deliver a message twice.
InitRedeliver ==
  InitJoined([NoBudget EXCEPT !.joins = [p \in Peers |-> IF p = First THEN 0 ELSE MaxJoins],
                              !.dups = MaxDups])

NextRedeliver ==
  \E p \in Peers :
    \/ JoinRoom(p)
    \/ RoomSelected(p)
    \/ SignalInserted(p)
    \/ SignalSent(p)
    \/ Deliver(p)
    \/ Redeliver(p)
    \/ Initialized(p)
    \/ OfferCreated(p)
    \/ LocalOfferSet(p)
    \/ RemoteOfferSet(p)
    \/ AnswerCreated(p)
    \/ LocalAnswerSet(p)
    \/ RemoteAnswerSet(p)

SpecRedeliver == InitRedeliver /\ [][NextRedeliver]_vars

\* One SignalingService that is in room "demo" and is called directly, in
\* any order, on a relay that echoes.
InitPassthrough ==
  InitJoined([NoBudget EXCEPT !.calls = [p \in Peers |-> IF p = First THEN MaxCalls ELSE 0],
                              !.echo = TRUE])

NextPassthrough ==
  \E p \in Peers :
    \/ CallJoinRoom(p)
    \/ CallJoinOther(p)
    \/ CallSendSignal(p)
    \/ CallLeave(p)
    \/ RoomSelected(p)
    \/ RoomInserted(p)
    \/ SignalInserted(p)
    \/ SignalSent(p)
    \/ Unsubscribed(p)
    \/ Deliver(p)

SpecPassthrough == InitPassthrough /\ [][NextPassthrough]_vars

\* ------------------------------------------------------------- claims
Published(p, type) == \E m \in BagToSet(signaling) : m.from = p /\ m.type = type

Quiescent == (\A p \in Peers : tasks[p] = {}) /\ inflight = EmptyBag

NobodyLeft == \A p \in Peers : budget.leaves[p] = (IF p \in Leavers THEN MaxLeaves ELSE 0)

\* C1: of two sessions that join the same room, exactly one publishes an
\* offer and the other publishes the answer: never both publish an offer,
\* and once both are in the room and nothing is pending, one of them has.
C1_ExactlyOneInitiator ==
  /\ ~(Published("A", "offer") /\ Published("B", "offer"))
  /\ (Quiescent /\ NobodyLeft /\ \A p \in Peers : view[p] = "call" /\ roomId[p] # 0) =>
       \E p \in Peers : Published(p, "offer") /\ Published(Other(p), "answer")

CountIn(table, p, type) ==
  LET S == {m \in BagToSet(table) : m.from = p /\ m.type = type}
  IN BagCardinality([m \in S |-> table[m]])

Count(p, type) == CountIn(signaling, p, type)

SentTo(p, type, q) ==
  \E m \in BagToSet(signaling) : m.from = p /\ m.type = type /\ m.to = q

\* a's offer went to b, b's answer went back and a applied it; both handlers
\* have returned and no other negotiation or leave took place.
RoundTripDone(a, b) ==
  /\ SentTo(a, "offer", b) /\ SentTo(b, "answer", a)
  /\ ~Published(b, "offer") /\ ~Published(a, "answer")
  /\ \A p \in Peers : ~Published(p, "leave") /\ tasks[p] = {}
  /\ webrtc[a] # 0 /\ eng[a][webrtc[a]].remote

\* C2: after the round trip offer a -> b, answer b -> a, applied by a, both
\* sessions are connected, bound to each other, and exactly one offer and one
\* answer have been published.
C2_RoundTrip ==
  \A a \in Peers : LET b == Other(a) IN
    RoundTripDone(a, b) =>
      /\ status[a] = "connected" /\ status[b] = "connected"
      /\ remotePeerId[a] = b /\ remotePeerId[b] = a
      /\ Count(a, "offer") = 1 /\ Count(b, "answer") = 1

C2_Witness == RoundTripDone("A", "B")

\* The session state of p is what it was, and nothing was published.
SessionUnchanged(p) ==
  /\ roomId'[p] = roomId[p] /\ channel'[p] = channel[p] /\ cb'[p] = cb[p]
  /\ subs' = subs /\ signaling' = signaling /\ inflight' = inflight
  /\ tasks'[p] = tasks[p]

\* The connection manager of p is what it was, and nothing was published.
ManagerUnchanged(p) ==
  /\ remotePeerId'[p] = remotePeerId[p] /\ isInitiator'[p] = isInitiator[p]
  /\ webrtc'[p] = webrtc[p] /\ eng'[p] = eng[p] /\ status'[p] = status[p]
  /\ tasks'[p] = tasks[p] /\ signaling' = signaling

\* C3: once a remote peer is bound, handling a message of any kind from
\* another peer changes nothing and publishes nothing.
C3_StaleRejected ==
  [][\A p \in Peers :
       (/\ trace'.delivered.peer = p /\ trace'.handled
        /\ remotePeerId[p] # NULL
        /\ trace'.delivered.msg.from # remotePeerId[p])
       => ManagerUnchanged(p)]_vars

\* C4: a candidate received from the bound remote peer before the remote
\* description is set is retained (pending on the engine or added to it), and
\* a pending candidate ends up added, never dropped.
C4_CandidatesBuffered ==
  [][\A p \in Peers :
       /\ (/\ trace'.delivered.peer = p /\ trace'.handled
           /\ trace'.delivered.msg.type = "ice-candidate"
           /\ remotePeerId[p] # NULL
           /\ trace'.delivered.msg.from = remotePeerId[p]
           /\ (webrtc[p] = 0 \/ ~eng[p][webrtc[p]].remote))
          => \E t \in tasks'[p] : t.pc = "addIce" /\ t.msg = trace'.delivered.msg
       /\ \A t \in tasks[p] :
            (t.pc = "addIce" /\ t \notin tasks'[p])
            => \E i \in 1..Len(eng'[p][t.eng].cands) : eng'[p][t.eng].cands[i] = t.msg.data
    ]_vars

\* C5: leaveRoom() publishes a leave; a session that handles the leave of its
\* bound remote peer closes its media engine and has no remote peer; an idle
\* session that handles a join or an offer binds the sender and starts a
\* negotiation on a new media engine.
C5_LeaveReturnsToIdle ==
  [][\A p \in Peers :
       LET m == trace'.delivered.msg IN
       /\ (trace'.op = "leaveRoom" /\ trace'.who = p /\ roomId[p] # 0)
          => CountIn(signaling', p, "leave") = Count(p, "leave") + 1
       /\ (/\ trace'.delivered.peer = p /\ trace'.handled
           /\ m.type = "leave" /\ m.from = remotePeerId[p])
          => /\ remotePeerId'[p] = NULL /\ webrtc'[p] = 0
             /\ \A e \in 1..MaxEngines : e = webrtc[p] =>
                  ~eng'[p][e].stream /\ ~eng'[p][e].pc
       /\ (/\ trace'.delivered.peer = p /\ trace'.handled
           /\ m.type \in {"join", "offer"}
           /\ remotePeerId[p] = NULL /\ webrtc[p] = 0)
          => /\ remotePeerId'[p] = m.from /\ webrtc'[p] # 0
             /\ \E t \in tasks'[p] :
                  t.pc = "getUserMedia" /\ t.msg = m /\ t.eng = webrtc'[p]
    ]_vars

\* B answered the offer of A, handled the leave of A, and then accepted the
\* join of A that the relay delivered late: a new negotiation has started.
C5_Witness ==
  /\ trace.delivered.peer = "B" /\ trace.handled
  /\ trace.delivered.msg.type = "join" /\ trace.delivered.msg.from = "A"
  /\ SentTo("A", "offer", "B") /\ SentTo("B", "answer", "A") /\ ~Published("B", "offer")
  /\ Published("A", "leave")
  /\ remotePeerId["B"] = "A"
  /\ \E t \in tasks["B"] : t.pc = "getUserMedia" /\ t.msg.type = "join"

\* C6: a leave() called when an earlier leave() has completed (no room
\* binding, no channel) does not throw, publishes nothing and changes nothing.
C6_LeaveIdempotent ==
  [][\A p \in Peers :
       (/\ trace'.op = "leave" /\ trace'.who = p
        /\ roomId[p] = 0 /\ channel[p] = NoChannel)
       => trace'.threw = "none" /\ SessionUnchanged(p)]_vars

C6_Witness ==
  /\ trace.op = "leave" /\ trace.who = "A"
  /\ Count("A", "leave") = 1
  /\ roomId["A"] = 0 /\ channel["A"] = NoChannel /\ tasks["A"] = {}

\* C7: while a session is connected and bound to the other session, an
\* answer, an ice-candidate or a leave of the third peer changes nothing: no
\* media-engine operation starts, and the session stays connected and bound.
C7_ThirdPeerIgnored ==
  [][\A p \in Peers :
       (/\ trace'.delivered.peer = p /\ trace'.handled
        /\ trace'.delivered.msg.from = Stranger
        /\ trace'.delivered.msg.type \in {"answer", "ice-candidate", "leave"}
        /\ status[p] = "connected" /\ remotePeerId[p] = Other(p))
       => /\ ManagerUnchanged(p)
          /\ status'[p] = "connected" /\ remotePeerId'[p] = Other(p)]_vars

C7_Witness ==
  /\ trace.delivered.peer = "A" /\ trace.handled
  /\ trace.delivered.msg.from = Stranger /\ trace.delivered.msg.type = "answer"
  /\ status["A"] = "connected" /\ remotePeerId["A"] = "B" /\ webrtc["A"] # 0
  /\ eng["A"][webrtc["A"]].sig = "have-local-offer"

\* C8: joinRoom never fails while the store is reachable, a name has one
\* room record, and the sessions that joined the name hold the same RoomId.
C8_RoomResolution ==
  /\ trace.threw # "RoomError"
  /\ \A r1, r2 \in rooms : r1.name = r2.name => r1 = r2
  /\ \A p, q \in Peers : (roomId[p] # 0 /\ roomId[q] # 0) => roomId[p] = roomId[q]

\* C9: a session never holds two live subscriptions.
C9_OneSubscription ==
  \A p \in Peers : Cardinality({s \in subs : s.peer = p}) <= 1

\* C10: sendSignal called without a room binding throws the not-joined
\* error, publishes nothing and changes nothing.
C10_NotJoined ==
  [][\A p \in Peers :
       (trace'.op = "sendSignal" /\ trace'.who = p /\ roomId[p] = 0)
       => trace'.threw = "NotJoined" /\ SessionUnchanged(p)]_vars

C10_Witness ==
  /\ trace.op = "sendSignal" /\ trace.who = "A" /\ trace.threw = "NotJoined"
  /\ Published("A", "leave") /\ roomId["A"] = 0

\* C11: the handler registered through onMessage is never invoked with a
\* message published by the session itself, although the relay delivers it.
C11_SelfFiltered ==
  trace.handled => trace.delivered.msg.from # trace.delivered.peer

\* A's own offer came back to A, whose handler is registered, and was not
\* handed to it.
C11_Witness ==
  /\ trace.delivered.peer = "A" /\ trace.delivered.msg.from = "A"
  /\ trace.delivered.msg.type = "offer"
  /\ cb["A"] = "app" /\ ~trace.handled

\* The rows session p adds to the signaling table in this step.
NewRows(p) ==
  {m \in BagToSet(signaling') :
     m.from = p /\ CopiesIn(m, signaling') > CopiesIn(m, signaling)}

\* C12: a join or a leave is published with target_peer_id null; an offer,
\* an answer or an ice-candidate is published with the remote peer bound at
\* the time of publishing as its target, which is not null.
C12_Targets ==
  [][\A p \in Peers : \A m \in NewRows(p) :
       IF m.type \in {"join", "leave"}
       THEN m.to = NULL
       ELSE m.to # NULL /\ m.to = remotePeerId[p]]_vars

\* Both sessions published a directed message of each kind, and the first
\* published its leave.
C12_Witness ==
  /\ SentTo("A", "offer", "B") /\ SentTo("B", "answer", "A")
  /\ SentTo("B", "ice-candidate", "A") /\ SentTo("A", "ice-candidate", "B")
  /\ SentTo("A", "leave", NULL) /\ SentTo("B", "join", NULL)

\* C13: when local media acquisition fails while a join or an offer is
\* handled, the session ends with no remote peer bound and no media engine
\* held.
C13_MediaFailureToIdle ==
  [][\A p \in Peers :
       (trace'.op = "getUserMedia" /\ trace'.who = p /\ trace'.threw = "MediaError")
       => remotePeerId'[p] = NULL /\ webrtc'[p] = 0]_vars

\* The connection manager of p itself is what it was.
ManagerFieldsUnchanged(p) ==
  /\ remotePeerId'[p] = remotePeerId[p] /\ isInitiator'[p] = isInitiator[p]
  /\ webrtc'[p] = webrtc[p] /\ eng'[p] = eng[p] /\ status'[p] = status[p]

\* C14: handling a message whose payload does not match its kind changes
\* neither the bound remote peer, nor the role, nor the media engine, nor the
\* status.
C14_MalformedDropped ==
  [][\A p \in Peers :
       (/\ trace'.delivered.peer = p /\ trace'.handled
        /\ trace'.delivered.msg.data = Malformed)
       => ManagerFieldsUnchanged(p)]_vars

\* C15: a phonebook response lists exactly the other users, each by its id
\* and its codename and by nothing else: no entry has a phone number, and the
\* user it is served to is not listed.
C15_PhonebookHidesPhones ==
  (response.route = "phonebook" /\ response.status = 200) =>
    /\ \A e \in response.body : DOMAIN e = {"id", "codename"}
    /\ \A e \in response.body : e.id # session[response.to].id
    /\ response.body =
         {[id |-> u.id, codename |-> u.codename] :
            u \in {x \in users : x.id # session[response.to].id}}

\* V is served a phonebook that lists U, whose phone number is on record.
C15_Witness ==
  /\ response.route = "phonebook" /\ response.status = 200 /\ response.to = "V"
  /\ \E u \in users : /\ u.google_id = "U" /\ u.phone_number = "5550002"
                       /\ [id |-> u.id, codename |-> u.codename] \in response.body
  /\ session["V"].type = "existing"

\* C16: two sessions that join the same room end up connected to each other.
C16_EventuallyConnected ==
  <>(\A p \in Peers : status[p] = "connected" /\ remotePeerId[p] = Other(p))

\* C17: an invocation that was suspended in the media engine while the leave
\* of the bound remote peer was handled, or while leaveRoom completed,
\* publishes no offer and no answer when it resumes.
C17_StaleDiscarded ==
  [][\A p \in Peers : \A m \in NewRows(p) :
       m.type \in {"offer", "answer"} =>
         ~\E t \in tasks'[p] : t.pc = "ss_insert" /\ t.out = m /\ t.stale]_vars

\* C18: no WebRTCConnection is dropped with its capture live or its link
\* open, and a session with no remote peer bound holds no live capture and
\* no open link.
C18_Released ==
  \A p \in Peers :
    /\ ~budget.leaked[p]
    /\ remotePeerId[p] = NULL =>
         \A e \in 1..MaxEngines : ~eng[p][e].stream /\ ~eng[p][e].pc

\* C19: a session that handles a join while idle binds the sender and is
\* shown as connecting; an initiator is shown as connected only once the
\* answer of the bound remote peer has been applied to its media engine.
C19_ConnectedAfterAnswer ==
  [][\A p \in Peers :
       /\ (/\ trace'.delivered.peer = p /\ trace'.handled
           /\ trace'.delivered.msg.type = "join"
           /\ remotePeerId[p] = NULL)
          => /\ remotePeerId'[p] = trace'.delivered.msg.from
             /\ status'[p] = "connecting"
       /\ (isInitiator'[p] /\ status'[p] = "connected")
          => /\ webrtc'[p] # 0
             /\ eng'[p][webrtc'[p]].remote
    ]_vars

\* C20: handling an offer, an answer or an ice-candidate whose
\* target_peer_id is not the local peer id binds nothing, starts no
\* media-engine operation and publishes nothing.
C20_TargetChecked ==
  [][\A p \in Peers :
       (/\ trace'.delivered.peer = p /\ trace'.handled
        /\ trace'.delivered.msg.type \in {"offer", "answer", "ice-candidate"}
        /\ trace'.delivered.msg.to # p)
       => ManagerUnchanged(p)]_vars

\* C21: every message of another peer that the relay delivers on the
\* session's subscription is handed to the application's handler.
C21_NoneDropped ==
  [][\A p \in Peers :
       (trace'.delivered.peer = p /\ trace'.delivered.msg.from # p)
       => trace'.handled]_vars

\* C22: while a remote peer is bound, handling a join changes neither the
\* bound remote peer, nor the role, nor the media engine, and starts and
\* publishes nothing.
C22_JoinIdempotent ==
  [][\A p \in Peers :
       (/\ trace'.delivered.peer = p /\ trace'.handled
        /\ trace'.delivered.msg.type = "join"
        /\ remotePeerId[p] # NULL)
       => ManagerUnchanged(p)]_vars

\* A, bound to B and negotiating, handled the join of the third peer.
C22_Witness ==
  /\ trace.delivered.peer = "A" /\ trace.handled
  /\ trace.delivered.msg.type = "join" /\ trace.delivered.msg.from = Stranger
  /\ remotePeerId["A"] = "B" /\ isInitiator["A"] /\ webrtc["A"] # 0
  /\ Count("A", "offer") = 1

\* C23: when the insert or the broadcast of a message reports an error,
\* sendSignal throws to its caller, and the message is not published again.
C23_PublishFailureSurfaced ==
  [][(trace'.failed # NoMsg) =>
       /\ trace'.threw # "none"
       /\ CopiesIn(trace'.failed, signaling') <= CopiesIn(trace'.failed, signaling)]_vars

\* C24: when publishing the leave message fails, leave() does not throw and
\* goes on to unsubscribe, unless the session is unsubscribed and unbound
\* already; and a leave() that returns has cleared the room binding and the
\* channel and left no subscription of the session.
C24_LeaveBestEffort ==
  [][\A p \in Peers :
       /\ (trace'.failed.type = "leave" /\ trace'.failed.from = p)
          => /\ trace'.threw = "none"
             /\ \/ \E t \in tasks'[p] :
                     t.kind \in {"leave", "svcLeave"} /\ t.pc \in {"ss_send", "unsubscribe"}
                \/ /\ roomId'[p] = 0 /\ channel'[p] = NoChannel
                   /\ ~\E x \in subs' : x.peer = p
       /\ \A t \in tasks[p] :
            (t.kind \in {"leave", "svcLeave"} /\ ~\E u \in tasks'[p] : u.id = t.id)
            => /\ roomId'[p] = 0 /\ channel'[p] = NoChannel
               /\ ~\E x \in subs' : x.peer = p
    ]_vars

\* A's leaveRoom() has completed although the insert of its leave message
\* failed: the message is not in the store, A has no room and no subscription.
C24_Witness ==
  /\ view["A"] = "join" /\ budget.leaves["A"] = 0 /\ tasks["A"] = {}
  /\ budget.fails = 0 /\ ~Published("A", "leave")
  /\ roomId["A"] = 0 /\ channel["A"] = NoChannel
  /\ ~\E x \in subs : x.peer = "A"

\* The deliveries the relay takes from session p in this step.
NewDeliveries(p) ==
  {d \in BagToSet(inflight') :
     d.msg.from = p /\ CopiesIn(d, inflight') > CopiesIn(d, inflight)}

\* C25: a message sendSignal publishes carries the peer id of the session
\* and the room the session is bound to when it is stored and when it is
\* broadcast, and a sendSignal call changes neither the room binding, nor
\* the channel, nor the subscriptions, nor the registered handler (a step of
\* a direct sendSignal call is the call or one of its continuations).
C25_Passthrough ==
  [][\A p \in Peers :
       /\ \A m \in NewRows(p) : m.from = p /\ m.room = roomId'[p]
       /\ \A d \in NewDeliveries(p) : d.msg.room = roomId'[p]
       /\ (\/ trace'.op = "sendSignal" /\ trace'.who = p
           \/ \E t \in tasks[p] : t.kind = "svcSend" /\ t \notin tasks'[p]) =>
            /\ roomId'[p] = roomId[p] /\ channel'[p] = channel[p] /\ cb'[p] = cb[p]
            /\ subs' = subs]_vars

\* C26: while the status is 'connected' a remote peer is bound and a media
\* engine is held.
C26_ConnectedMeansBound ==
  \A p \in Peers :
    status[p] = "connected" => remotePeerId[p] # NULL /\ webrtc[p] # 0

\* C27: a session publishes at most one leave message for each joinRoom it
\* has called (a call still in progress counts as a join), however its
\* leave() invocations overlap.
C27_OneLeavePerJoin ==
  \A p \in Peers :
    Count(p, "leave") <=
      Count(p, "join") + Cardinality({t \in tasks[p] : t.kind \in {"join", "svcJoin"}})

\* C28: a responder publishes at most one answer for each offer its peer
\* published, however often the relay delivers that offer.
C28_OneAnswerPerOffer ==
  \A p \in Peers : Count(p, "answer") <= Count(Other(p), "offer")

\* leaveRoom() of p has completed and p has not called joinRoom since.
LeftRoom(p) ==
  /\ p \in Leavers /\ budget.leaves[p] < MaxLeaves
  /\ view[p] = "join"
  /\ ~\E t \in tasks[p] : t.kind \in {"join", "leave"}

\* C29: from the completion of leaveRoom() to the next joinRoom, the session
\* stores no row, broadcasts nothing and has no remote peer bound, whatever
\* continuation resumes meanwhile.
C29_SilentAfterLeave ==
  /\ [](\A p \in Peers : LeftRoom(p) => remotePeerId[p] = NULL)
  /\ [][\A p \in Peers :
          (LeftRoom(p) /\ LeftRoom(p)') =>
            NewRows(p) = {} /\ NewDeliveries(p) = {}]_vars

\* C30: once a call log has a terminal status and ended_at set, no status
\* webhook for that call log leaves it with a status that is not terminal.
C30_TerminalIsFinal ==
  [][\A l \in callLogs :
       (/\ l.status \in TerminalStatuses /\ l.ended_at # NULL
        /\ \E r \in requests \ requests' : r.kind = "status" /\ r.log = l.id)
       => \A k \in getCallLogById(callLogs', l.id) : k.status \in TerminalStatuses]_vars

====
